---- MODULE Spec2Model ----
(***************************************************************************)
(* Model of retryhttp (src/retryhttp/__init__.py): the classifier          *)
(* predicates, the wait strategies, the context-aware wait dispatcher and  *)
(* the policy composer retry_http_errors, run by tenacity's retry loop.    *)
(*                                                                         *)
(* Durations are whole seconds (integers).  A header value is a sequence   *)
(* of one-character strings, so that float() is a computation on text.     *)
(***************************************************************************)
EXTENDS Integers, Sequences, FiniteSets, TLC

(***************************************************************************)
(* Bounds of the model.                                                    *)
(***************************************************************************)
MaxAttemptNumber == 3      \* largest max_attempt_number a policy is built with
MaxJitter == 1             \* random.uniform(0, jitter) drawn from 0..MaxJitter

(***************************************************************************)
(* Program constants.                                                      *)
(***************************************************************************)
MAX_ATTEMPTS == 3
TOO_MANY_REQUESTS == 429

\* An optional argument: None, a single value, or a sequence/tuple of values.
None == [tag |-> "none", one |-> "", many |-> {}]
NoneCodes == [tag |-> "none", one |-> 0, many |-> {}]
IntCode(n) == [tag |-> "int", one |-> n, many |-> {}]
Codes(S) == [tag |-> "seq", one |-> 0, many |-> S]
OneType(c) == [tag |-> "type", one |-> c, many |-> {}]
Types(S) == [tag |-> "tuple", one |-> "", many |-> S]

RETRY_SERVER_ERROR_CODES == Codes({500, 502, 504, 503})
RETRY_NETWORK_ERRORS == Types({"ConnectError", "ReadError", "WriteError"})
RETRY_NETWORK_TIMEOUTS == Types({"TimeoutException"})

(***************************************************************************)
(* httpx's exception classes: the base class of each, and isinstance.      *)
(***************************************************************************)
Base(c) ==
    CASE c \in {"ConnectTimeout", "ReadTimeout", "WriteTimeout", "PoolTimeout"}
            -> "TimeoutException"
      [] c \in {"ConnectError", "ReadError", "WriteError", "CloseError"}
            -> "NetworkError"
      [] c \in {"TimeoutException", "NetworkError"} -> "TransportError"
      [] c \in {"TransportError", "HTTPStatusError"} -> "HTTPError"
      [] c \in {"HTTPError", "ValueError", "RetryError"} -> "Exception"
      [] c = "Exception" -> "BaseException"
      [] OTHER -> "object"

RECURSIVE IsSubclass(_, _)
IsSubclass(c, d) ==
    IF c = d THEN TRUE
    ELSE IF c \in {"object", "BaseException"} THEN FALSE
    ELSE IsSubclass(Base(c), d)

\* isinstance(exc, classinfo): classinfo is one class or a tuple of classes;
\* exc is None for an outcome that holds a return value.
isinstance(exc, classinfo) ==
    /\ ~exc.is_none
    /\ IF classinfo.tag = "type"
       THEN IsSubclass(exc.type, classinfo.one)
       ELSE \E c \in classinfo.many : IsSubclass(exc.type, c)

(***************************************************************************)
(* Attempt outcomes (tenacity's Future) and the exception they hold.       *)
(***************************************************************************)
NoHeaders == {}
OutcomeNone == [kind |-> "none", type |-> "", status_code |-> 0,
                headers |-> NoHeaders, value |-> 0]
Returned(v) == [kind |-> "result", type |-> "", status_code |-> 0,
                headers |-> NoHeaders, value |-> v]
Raised(t) == [kind |-> "exception", type |-> t, status_code |-> 0,
              headers |-> NoHeaders, value |-> 0]
StatusError(code, hs) == [kind |-> "exception", type |-> "HTTPStatusError",
                          status_code |-> code, headers |-> hs, value |-> 0]

\* outcome.exception(): None for a result, the raised exception otherwise.
exception(outcome) ==
    [is_none |-> outcome.kind # "exception", type |-> outcome.type,
     status_code |-> outcome.status_code, headers |-> outcome.headers]

\* httpx.Headers: case-insensitive keys, stored lower-cased.
Lower(name) ==
    CASE name = "Retry-After" -> "retry-after"
      [] name = "X-Retry-In" -> "x-retry-in"
      [] OTHER -> name

HasHeader(headers, name) == \E p \in headers : p[1] = Lower(name)
GetHeader(headers, name) == (CHOOSE p \in headers : p[1] = Lower(name))[2]

(***************************************************************************)
(* float(str): an optional sign followed by one or more decimal digits     *)
(* gives the number; any other text raises ValueError.                     *)
(***************************************************************************)
IsDigit(ch) == ch \in {"0", "1", "2", "3", "4", "5", "6", "7", "8", "9"}
DigitVal(ch) ==
    CASE ch = "0" -> 0 [] ch = "1" -> 1 [] ch = "2" -> 2 [] ch = "3" -> 3
      [] ch = "4" -> 4 [] ch = "5" -> 5 [] ch = "6" -> 6 [] ch = "7" -> 7
      [] ch = "8" -> 8 [] ch = "9" -> 9

RECURSIVE DigitsVal(_)
DigitsVal(s) ==
    IF s = <<>> THEN 0
    ELSE 10 * DigitsVal(SubSeq(s, 1, Len(s) - 1)) + DigitVal(s[Len(s)])

AllDigits(s) == Len(s) >= 1 /\ \A i \in 1..Len(s) : IsDigit(s[i])

float(s) ==
    IF Len(s) >= 1 /\ s[1] \in {"-", "+"}
    THEN IF AllDigits(Tail(s))
         THEN [raised |-> FALSE,
               v |-> IF s[1] = "-" THEN 0 - DigitsVal(Tail(s)) ELSE DigitsVal(Tail(s))]
         ELSE [raised |-> TRUE, v |-> 0]
    ELSE IF AllDigits(s)
         THEN [raised |-> FALSE, v |-> DigitsVal(s)]
         ELSE [raised |-> TRUE, v |-> 0]

(***************************************************************************)
(* Classifier helpers and predicates.  retry_state is                      *)
(* [attempt_number, outcome].                                              *)
(***************************************************************************)
\* Variant: 503 Service Unavailable is taken for a rate limit as well.
_is_rate_limited_or_unavailable(exc) ==
    IF isinstance(exc, OneType("HTTPStatusError"))
    THEN exc.status_code \in {TOO_MANY_REQUESTS, 503}
    ELSE FALSE

_is_rate_limited(exc) ==
    IF isinstance(exc, OneType("HTTPStatusError"))
    THEN exc.status_code = TOO_MANY_REQUESTS
    ELSE FALSE

\* Variant: a single integer code is not turned into a one-element list.
_is_server_error_without_int(exc, status_codes) ==
    IF isinstance(exc, OneType("HTTPStatusError"))
    THEN exc.status_code \in status_codes.many
    ELSE FALSE

_is_server_error(exc, status_codes) ==
    LET codes == IF status_codes.tag = "int" THEN {status_codes.one}
                 ELSE status_codes.many
    IN  IF isinstance(exc, OneType("HTTPStatusError"))
        THEN exc.status_code \in codes
        ELSE FALSE

\* retry_state.outcome is truthy once an attempt has set it (a Future object).
truthy(outcome) == outcome.kind # "none"

retry_if_rate_limited_init == [cls |-> "retry_if_rate_limited"]

retry_if_rate_limited(self, retry_state) ==
    IF truthy(retry_state.outcome)
    THEN _is_rate_limited(exception(retry_state.outcome))
    ELSE FALSE

\* Variant: the errors argument is dropped and the default set always used.
retry_if_network_error_init_default_only(errors) ==
    [cls |-> "retry_if_network_error", errors |-> RETRY_NETWORK_ERRORS]

\* The isinstance(errors, BaseException) branch of __init__ is taken for an
\* exception instance only; a class or a tuple of classes is stored as given.
retry_if_network_error_init(errors) ==
    [cls |-> "retry_if_network_error",
     errors |-> IF errors.tag = "none" THEN RETRY_NETWORK_ERRORS ELSE errors]

retry_if_network_error(self, retry_state) ==
    IF truthy(retry_state.outcome)
    THEN isinstance(exception(retry_state.outcome), self.errors)
    ELSE FALSE

retry_if_network_timeout_init(timeouts) ==
    [cls |-> "retry_if_network_timeout",
     timeouts |-> IF timeouts.tag = "none" THEN RETRY_NETWORK_TIMEOUTS ELSE timeouts]

retry_if_network_timeout(self, retry_state) ==
    IF truthy(retry_state.outcome)
    THEN isinstance(exception(retry_state.outcome), self.timeouts)
    ELSE FALSE

retry_if_server_error_init(server_error_codes) ==
    [cls |-> "retry_if_server_error",
     server_error_codes |-> IF server_error_codes.tag = "none"
                            THEN RETRY_SERVER_ERROR_CODES
                            ELSE server_error_codes]

\* Variant: the configured codes are not passed on, so _is_server_error falls
\* back to its own default, every status from 500 to 599.
retry_if_server_error_any_5xx(self, retry_state) ==
    IF truthy(retry_state.outcome)
    THEN _is_server_error(exception(retry_state.outcome), Codes(500..599))
    ELSE FALSE

retry_if_server_error(self, retry_state) ==
    IF truthy(retry_state.outcome)
    THEN _is_server_error(exception(retry_state.outcome), self.server_error_codes)
    ELSE FALSE

\* retry_base.__call__ dispatch on the strategy's class.
call_retry(self, retry_state) ==
    CASE self.cls = "retry_if_server_error" -> retry_if_server_error(self, retry_state)
      [] self.cls = "retry_if_network_error" -> retry_if_network_error(self, retry_state)
      [] self.cls = "retry_if_network_timeout" -> retry_if_network_timeout(self, retry_state)
      [] self.cls = "retry_if_rate_limited" -> retry_if_rate_limited(self, retry_state)

\* Variant: the predicates are combined with all() instead of any().
retry_any_as_all(retries, retry_state) ==
    \A i \in DOMAIN retries : call_retry(retries[i], retry_state)

\* tenacity.retry_any(*retries): any(r(retry_state) for r in retries).
retry_any(retries, retry_state) ==
    \E i \in DOMAIN retries : call_retry(retries[i], retry_state)

(***************************************************************************)
(* Wait strategies.  A call gives [raised, v, source]: raised when an      *)
(* exception escapes the call, v the delay otherwise, source the category  *)
(* argument of the dispatcher whose strategy produced v ("" outside it).   *)
(* rnd is the value random.uniform draws.                                  *)
(***************************************************************************)
Min(a, b) == IF a < b THEN a ELSE b
Max(a, b) == IF a > b THEN a ELSE b
Delay(v) == [raised |-> FALSE, v |-> v, source |-> ""]
ValueError == [raised |-> TRUE, v |-> 0, source |-> ""]

\* tenacity.wait_exponential_jitter(initial, max), exp_base 2, jitter 1.
wait_exponential_jitter_init(initial, max) ==
    [cls |-> "wait_exponential_jitter", initial |-> initial, max |-> max]

wait_exponential_jitter(self, retry_state, rnd) ==
    Delay(Max(0, Min(self.initial * 2 ^ (retry_state.attempt_number - 1) + rnd,
                     self.max)))

\* tenacity.wait_exponential(multiplier, max), exp_base 2, min 0.
wait_exponential_init(multiplier, max) ==
    [cls |-> "wait_exponential", multiplier |-> multiplier, max |-> max]

wait_exponential(self, retry_state) ==
    Delay(Max(0, Min(self.multiplier * 2 ^ (retry_state.attempt_number - 1),
                     self.max)))

wait_from_header_init(header, fallback) ==
    [cls |-> "wait_from_header", header |-> header, fallback |-> fallback]

wait_retry_after_header_init ==
    wait_from_header_init("Retry-After", wait_exponential_jitter_init(1, 15))

RECURSIVE call_wait(_, _, _)

\* Variant: the header is never read and the fallback always decides.
wait_from_header_ignoring_header(self, retry_state, rnd) ==
    call_wait(self.fallback, retry_state, rnd)

\* headers.get(self.header, self.fallback(retry_state)) evaluates the
\* fallback first; float() of the header text may raise ValueError.
wait_from_header(self, retry_state, rnd) ==
    LET fallback == call_wait(self.fallback, retry_state, rnd)
        exc == exception(retry_state.outcome)
    IN  IF fallback.raised THEN fallback
        ELSE IF truthy(retry_state.outcome)
                /\ isinstance(exc, OneType("HTTPStatusError"))
        THEN IF HasHeader(exc.headers, self.header)
             THEN LET f == float(GetHeader(exc.headers, self.header))
                  IN  IF f.raised THEN ValueError ELSE Delay(f.v)
             ELSE Delay(fallback.v)
        ELSE Delay(fallback.v)

\* wait_base.__call__ dispatch on the strategy's class.
call_wait(self, retry_state, rnd) ==
    CASE self.cls = "wait_exponential_jitter" -> wait_exponential_jitter(self, retry_state, rnd)
      [] self.cls = "wait_exponential" -> wait_exponential(self, retry_state)
      [] self.cls = "wait_from_header" -> wait_from_header(self, retry_state, rnd)

wait_context_aware_init(wait_server_errors, wait_network_errors, wait_network_timeouts, wait_rate_limited, server_error_codes, network_errors, network_timeouts) ==
    [cls |-> "wait_context_aware",
     wait_server_errors |-> wait_server_errors,
     wait_network_errors |-> wait_network_errors,
     wait_network_timeouts |-> wait_network_timeouts,
     wait_rate_limited |-> wait_rate_limited,
     server_error_codes |-> IF server_error_codes.tag = "none"
                            THEN RETRY_SERVER_ERROR_CODES ELSE server_error_codes,
     network_errors |-> IF network_errors.tag = "none"
                        THEN RETRY_NETWORK_ERRORS ELSE network_errors,
     network_timeouts |-> IF network_timeouts.tag = "none"
                          THEN RETRY_NETWORK_TIMEOUTS ELSE network_timeouts]

From(w, source) == [w EXCEPT !.source = source]

\* Variant: the rate-limit strategy is the final else branch instead of
\* being guarded by _is_rate_limited.
wait_context_aware_else_rate_limited(self, retry_state, rnd) ==
    LET exc == exception(retry_state.outcome)
    IN  IF ~truthy(retry_state.outcome) THEN From(Delay(0), "none")
        ELSE IF _is_server_error(exc, self.server_error_codes)
        THEN From(call_wait(self.wait_server_errors, retry_state, rnd),
                  "wait_server_errors")
        ELSE IF isinstance(exc, self.network_errors)
        THEN From(call_wait(self.wait_network_errors, retry_state, rnd),
                  "wait_network_errors")
        ELSE IF isinstance(exc, self.network_timeouts)
        THEN From(call_wait(self.wait_network_timeouts, retry_state, rnd),
                  "wait_network_timeouts")
        ELSE From(call_wait(self.wait_rate_limited, retry_state, rnd),
                  "wait_rate_limited")

\* Variant: the rate-limit test comes first in the chain.
wait_context_aware_rate_limited_first(self, retry_state, rnd) ==
    LET exc == exception(retry_state.outcome)
    IN  IF ~truthy(retry_state.outcome) THEN From(Delay(0), "none")
        ELSE IF _is_rate_limited(exc)
        THEN From(call_wait(self.wait_rate_limited, retry_state, rnd),
                  "wait_rate_limited")
        ELSE IF _is_server_error(exc, self.server_error_codes)
        THEN From(call_wait(self.wait_server_errors, retry_state, rnd),
                  "wait_server_errors")
        ELSE IF isinstance(exc, self.network_errors)
        THEN From(call_wait(self.wait_network_errors, retry_state, rnd),
                  "wait_network_errors")
        ELSE IF isinstance(exc, self.network_timeouts)
        THEN From(call_wait(self.wait_network_timeouts, retry_state, rnd),
                  "wait_network_timeouts")
        ELSE From(Delay(0), "none")

wait_context_aware(self, retry_state, rnd) ==
    LET exc == exception(retry_state.outcome)
    IN  IF ~truthy(retry_state.outcome) THEN From(Delay(0), "none")
        ELSE IF _is_server_error(exc, self.server_error_codes)
        THEN From(call_wait(self.wait_server_errors, retry_state, rnd),
                  "wait_server_errors")
        ELSE IF isinstance(exc, self.network_errors)
        THEN From(call_wait(self.wait_network_errors, retry_state, rnd),
                  "wait_network_errors")
        ELSE IF isinstance(exc, self.network_timeouts)
        THEN From(call_wait(self.wait_network_timeouts, retry_state, rnd),
                  "wait_network_timeouts")
        ELSE IF _is_rate_limited(exc)
        THEN From(call_wait(self.wait_rate_limited, retry_state, rnd),
                  "wait_rate_limited")
        ELSE From(Delay(0), "none")

(***************************************************************************)
(* The policy composer.  kw holds the keyword arguments.                   *)
(***************************************************************************)
\* Variant: the network-error default is the jittered backoff as well.
DefaultKw_network_jitter ==
    [max_attempt_number |-> 3,
     retry_server_errors |-> TRUE,
     retry_network_errors |-> TRUE,
     retry_network_timeouts |-> TRUE,
     retry_rate_limited |-> TRUE,
     wait_server_errors |-> wait_exponential_jitter_init(1, 15),
     wait_network_errors |-> wait_exponential_jitter_init(1, 15),
     wait_network_timeouts |-> wait_exponential_jitter_init(1, 15),
     wait_rate_limited |-> wait_retry_after_header_init,
     server_error_codes |-> NoneCodes,
     network_errors |-> None,
     network_timeouts |-> None]

DefaultKw ==
    [max_attempt_number |-> 3,
     retry_server_errors |-> TRUE,
     retry_network_errors |-> TRUE,
     retry_network_timeouts |-> TRUE,
     retry_rate_limited |-> TRUE,
     wait_server_errors |-> wait_exponential_jitter_init(1, 15),
     wait_network_errors |-> wait_exponential_init(1, 15),
     wait_network_timeouts |-> wait_exponential_jitter_init(1, 15),
     wait_rate_limited |-> wait_retry_after_header_init,
     server_error_codes |-> NoneCodes,
     network_errors |-> None,
     network_timeouts |-> None]

\* Variant: the network-error predicate is added whatever its toggle says.
retry_http_errors_ignoring_toggle(kw) ==
    LET server_error_codes == IF kw.server_error_codes.tag = "none"
                              THEN RETRY_SERVER_ERROR_CODES
                              ELSE kw.server_error_codes
        network_errors == IF kw.network_errors.tag = "none"
                          THEN RETRY_NETWORK_ERRORS ELSE kw.network_errors
        network_timeouts == IF kw.network_timeouts.tag = "none"
                            THEN RETRY_NETWORK_TIMEOUTS ELSE kw.network_timeouts
        retry_strategies ==
            (IF kw.retry_server_errors
             THEN <<retry_if_server_error_init(server_error_codes)>> ELSE <<>>)
            \o <<retry_if_network_error_init(network_errors)>>
            \o (IF kw.retry_network_timeouts
                THEN <<retry_if_network_timeout_init(network_timeouts)>> ELSE <<>>)
            \o (IF kw.retry_rate_limited
                THEN <<retry_if_rate_limited_init>> ELSE <<>>)
    IN  [retry |-> retry_strategies,
         wait |-> wait_context_aware_init(kw.wait_server_errors,
                                          kw.wait_network_errors,
                                          kw.wait_network_timeouts,
                                          kw.wait_rate_limited,
                                          NoneCodes, None, None),
         stop |-> kw.max_attempt_number]

retry_http_errors(kw) ==
    LET server_error_codes == IF kw.server_error_codes.tag = "none"
                              THEN RETRY_SERVER_ERROR_CODES
                              ELSE kw.server_error_codes
        network_errors == IF kw.network_errors.tag = "none"
                          THEN RETRY_NETWORK_ERRORS ELSE kw.network_errors
        network_timeouts == IF kw.network_timeouts.tag = "none"
                            THEN RETRY_NETWORK_TIMEOUTS ELSE kw.network_timeouts
        retry_strategies ==
            (IF kw.retry_server_errors
             THEN <<retry_if_server_error_init(server_error_codes)>> ELSE <<>>)
            \o (IF kw.retry_network_errors
                THEN <<retry_if_network_error_init(network_errors)>> ELSE <<>>)
            \o (IF kw.retry_network_timeouts
                THEN <<retry_if_network_timeout_init(network_timeouts)>> ELSE <<>>)
            \o (IF kw.retry_rate_limited
                THEN <<retry_if_rate_limited_init>> ELSE <<>>)
    IN  [retry |-> retry_strategies,
         wait |-> wait_context_aware_init(kw.wait_server_errors,
                                          kw.wait_network_errors,
                                          kw.wait_network_timeouts,
                                          kw.wait_rate_limited,
                                          NoneCodes, None, None),
         stop |-> kw.max_attempt_number]

(***************************************************************************)
(* Inputs: the keyword arguments a policy is built with and the outcomes   *)
(* an attempt of the wrapped function can have.                            *)
(***************************************************************************)
NotANumber == <<"n", "o", "t", "-", "a", "-", "n", "u", "m", "b", "e", "r">>
HttpDate == <<"W", "e", "d", ",", " ", "2", "1", " ", "O", "c", "t", " ",
              "2", "0", "1", "5", " ", "0", "7", ":", "2", "8", ":", "0", "0",
              " ", "G", "M", "T">>
HeaderValues == {<<"5">>, <<"0">>, <<"-", "5">>, NotANumber, HttpDate}
HeaderSets ==
    {NoHeaders}
    \cup {{<<"retry-after", v>>} : v \in HeaderValues}
    \cup {{<<"retry-after", <<"5">>>>, <<"x-retry-in", <<"1", "2">>>>}}
StatusCodes == {404, 429, 500, 501}
ExceptionTypes == {"ConnectError", "CloseError", "ReadTimeout", "ValueError"}

Outcomes ==
    {Returned(1)}
    \cup {Raised(t) : t \in ExceptionTypes}
    \cup {StatusError(c, hs) : c \in StatusCodes, hs \in HeaderSets}

CodeChoices == {NoneCodes, Codes({429, 501}), IntCode(503)}
NetworkErrorChoices == {None, Types({"CloseError"}), OneType("NetworkError")}
NetworkTimeoutChoices ==
    {None, Types({"ConnectError", "ReadTimeout"}), OneType("ConnectTimeout")}

KwChoices ==
    {[DefaultKw EXCEPT !.max_attempt_number = n,
                       !.retry_server_errors = t[1],
                       !.retry_network_errors = t[2],
                       !.retry_network_timeouts = t[3],
                       !.retry_rate_limited = t[4],
                       !.server_error_codes = c,
                       !.network_errors = e,
                       !.network_timeouts = o] :
        n \in 1..MaxAttemptNumber,
        t \in BOOLEAN \X BOOLEAN \X BOOLEAN \X BOOLEAN,
        c \in CodeChoices, e \in NetworkErrorChoices, o \in NetworkTimeoutChoices}

(***************************************************************************)
(* One run of a function wrapped by the decorator: tenacity's retry loop   *)
(* driven by the policy's retry, wait and stop strategies.                 *)
(***************************************************************************)
VARIABLES
    kw,              \* keyword arguments retry_http_errors was called with
    policy,          \* the retry, wait and stop strategies it composed
    wait_first,      \* tenacity build: wait is computed before stop is asked
    pc,              \* "attempt", "iter", "sleep" or "done"
    attempt_number,  \* retry_state.attempt_number
    outcome,         \* retry_state.outcome
    upcoming_sleep,  \* the delay the wait strategy returned last
    wait_source,     \* the dispatcher branch that produced upcoming_sleep
    calls,           \* number of times the wrapped function has been called
    sleeps,          \* number of pauses made
    result           \* what the caller of the wrapped function receives

vars == <<kw, policy, wait_first, pc, attempt_number, outcome, upcoming_sleep,
          wait_source, calls, sleeps, result>>

NoResult == [kind |-> "none", exc_type |-> "", origin |-> "", last |-> OutcomeNone]
\* reraise is left at tenacity's default (False): RetryError wraps the Future.
RetryError(fut) ==
    [kind |-> "raise", exc_type |-> "RetryError", origin |-> "tenacity", last |-> fut]
WaitRaised(fut) ==
    [kind |-> "raise", exc_type |-> "ValueError", origin |-> "wait", last |-> fut]
SleepRaised(fut) ==
    [kind |-> "raise", exc_type |-> "ValueError", origin |-> "sleep", last |-> fut]
\* Future.result(): the return value, or the attempt's exception re-raised.
FutureResult(fut) ==
    IF fut.kind = "exception"
    THEN [kind |-> "raise", exc_type |-> fut.type, origin |-> "attempt", last |-> fut]
    ELSE [kind |-> "return", exc_type |-> "", origin |-> "attempt", last |-> fut]

retry_state == [attempt_number |-> attempt_number, outcome |-> outcome]

\* Variant: the stop test is strict, allowing one attempt too many.
stop_after_attempt_strict(max_attempt_number, rs) == rs.attempt_number > max_attempt_number

\* tenacity.stop_after_attempt(max_attempt_number).
stop_after_attempt(max_attempt_number, rs) == rs.attempt_number >= max_attempt_number

Init ==
    /\ kw \in KwChoices
    /\ policy = retry_http_errors(kw)
    /\ wait_first \in BOOLEAN
    /\ pc = "attempt"
    /\ attempt_number = 1
    /\ outcome = OutcomeNone
    /\ upcoming_sleep = 0
    /\ wait_source = ""
    /\ calls = 0
    /\ sleeps = 0
    /\ result = NoResult

\* The wrapped function is called and its outcome is set on the retry state.
Attempt ==
    /\ pc = "attempt"
    /\ \E o \in Outcomes : outcome' = o
    /\ calls' = calls + 1
    /\ pc' = "iter"
    /\ UNCHANGED <<kw, policy, wait_first, attempt_number, upcoming_sleep,
                   wait_source, sleeps, result>>

Finish(r) ==
    /\ pc' = "done"
    /\ result' = r

\* tenacity's iter() after an attempt: retry?, then stop and wait.
Iter ==
    /\ pc = "iter"
    /\ \E rnd \in 0..MaxJitter :
        LET rs == retry_state
            w == wait_context_aware(policy.wait, rs, rnd)
            stop == stop_after_attempt(policy.stop, rs)
        IN  IF ~retry_any(policy.retry, rs)
            THEN /\ Finish(FutureResult(outcome))
                 /\ UNCHANGED <<upcoming_sleep, wait_source>>
            ELSE IF wait_first
            THEN IF w.raised
                 THEN /\ Finish(WaitRaised(outcome))
                      /\ UNCHANGED <<upcoming_sleep, wait_source>>
                 ELSE /\ upcoming_sleep' = w.v
                      /\ wait_source' = w.source
                      /\ IF stop THEN Finish(RetryError(outcome))
                         ELSE pc' = "sleep" /\ UNCHANGED result
            ELSE IF stop
                 THEN /\ Finish(RetryError(outcome))
                      /\ UNCHANGED <<upcoming_sleep, wait_source>>
                 ELSE IF w.raised
                      THEN /\ Finish(WaitRaised(outcome))
                           /\ UNCHANGED <<upcoming_sleep, wait_source>>
                      ELSE /\ upcoming_sleep' = w.v
                           /\ wait_source' = w.source
                           /\ pc' = "sleep"
                           /\ UNCHANGED result
    /\ UNCHANGED <<kw, policy, wait_first, attempt_number, outcome, calls, sleeps>>

\* The pause before the next attempt; time.sleep rejects a negative length.
Sleep ==
    /\ pc = "sleep"
    /\ IF upcoming_sleep < 0
       THEN /\ Finish(SleepRaised(outcome))
            /\ UNCHANGED <<attempt_number, outcome, sleeps>>
       ELSE /\ attempt_number' = attempt_number + 1
            /\ outcome' = OutcomeNone
            /\ sleeps' = sleeps + 1
            /\ pc' = "attempt"
            /\ UNCHANGED result
    /\ UNCHANGED <<kw, policy, wait_first, upcoming_sleep, wait_source, calls>>

Next == Attempt \/ Iter \/ Sleep

Spec == Init /\ [][Next]_vars

(***************************************************************************)
(* Vocabulary of the properties: category membership of a failure under    *)
(* the sets the policy was configured with, stated from the configuration. *)
(***************************************************************************)
CfgCodes ==
    IF kw.server_error_codes.tag = "none" THEN {500, 502, 503, 504}
    ELSE IF kw.server_error_codes.tag = "int" THEN {kw.server_error_codes.one}
    ELSE kw.server_error_codes.many

CfgTypes(arg, default) ==
    IF arg.tag = "none" THEN default
    ELSE IF arg.tag = "type" THEN {arg.one}
    ELSE arg.many

IsFailure(o) == o.kind = "exception"
IsStatusFailure(o) == IsFailure(o) /\ o.type = "HTTPStatusError"
InServerErrors(o) == IsStatusFailure(o) /\ o.status_code \in CfgCodes
InNetworkErrors(o) ==
    /\ IsFailure(o)
    /\ \E c \in CfgTypes(kw.network_errors, {"ConnectError", "ReadError", "WriteError"}) :
          IsSubclass(o.type, c)
InNetworkTimeouts(o) ==
    /\ IsFailure(o)
    /\ \E c \in CfgTypes(kw.network_timeouts, {"TimeoutException"}) :
          IsSubclass(o.type, c)
InRateLimited(o) == IsStatusFailure(o) /\ o.status_code = 429

Categories == {"server_errors", "network_errors", "network_timeouts", "rate_limited"}

InCategory(cat, o) ==
    CASE cat = "server_errors" -> InServerErrors(o)
      [] cat = "network_errors" -> InNetworkErrors(o)
      [] cat = "network_timeouts" -> InNetworkTimeouts(o)
      [] cat = "rate_limited" -> InRateLimited(o)

Enabled(cat) ==
    CASE cat = "server_errors" -> kw.retry_server_errors
      [] cat = "network_errors" -> kw.retry_network_errors
      [] cat = "network_timeouts" -> kw.retry_network_timeouts
      [] cat = "rate_limited" -> kw.retry_rate_limited

ShouldRetryAccepts(o) == \E cat \in Categories : Enabled(cat) /\ InCategory(cat, o)

\* The attempt's own exception, raised to the caller as the attempt raised it.
Propagated(o) ==
    [kind |-> "raise", exc_type |-> o.type, origin |-> "attempt", last |-> o]

DefaultSets ==
    /\ kw.server_error_codes.tag = "none"
    /\ kw.network_errors.tag = "none"
    /\ kw.network_timeouts.tag = "none"

(***************************************************************************)
(* C1: a run makes at most max_attempt_number attempts, and a run in which *)
(* every attempt fails with a failure shouldRetry accepts ends after       *)
(* exactly max_attempt_number attempts.                                    *)
(***************************************************************************)
C1_ExactlyMaxAttempts ==
    /\ calls <= kw.max_attempt_number
    /\ (pc = "done" /\ ShouldRetryAccepts(outcome)) => calls = kw.max_attempt_number

(***************************************************************************)
(* C2: when the stop condition fires after a retryable failure, the caller *)
(* receives that attempt's own exception, never a wrapping error.          *)
(***************************************************************************)
C2_LastFailureSurfaces ==
    (pc = "done" /\ ShouldRetryAccepts(outcome)
        /\ attempt_number >= kw.max_attempt_number)
    => result = Propagated(outcome)

(***************************************************************************)
(* C3: a failure matching no enabled category ends the run at that attempt *)
(* whatever the attempt number: no pause, no further attempt, and the same *)
(* failure is propagated to the caller.                                    *)
(***************************************************************************)
C3_Step ==
    /\ (pc = "iter" /\ IsFailure(outcome) /\ ~ShouldRetryAccepts(outcome))
       => /\ pc' = "done"
          /\ result' = Propagated(outcome)
          /\ outcome' = outcome
          /\ calls' = calls
          /\ sleeps' = sleeps
    /\ pc = "done" => (pc' = "done" /\ calls' = calls /\ sleeps' = sleeps)

C3_UnmatchedPropagates == [][C3_Step]_vars

C3_Witness ==
    /\ pc = "done"
    /\ attempt_number = 2
    /\ DefaultSets
    /\ IsStatusFailure(outcome) /\ outcome.status_code = 501
    /\ result = Propagated(outcome)

(***************************************************************************)
(* C4: an outcome holding a return value is classified by no predicate,    *)
(* the dispatcher's wait for it is 0, and it ends the run at any attempt   *)
(* number with the caller receiving that return value.                     *)
(***************************************************************************)
C4_Step ==
    (pc = "iter" /\ outcome.kind = "result")
    => /\ ~retry_if_rate_limited(retry_if_rate_limited_init, retry_state)
       /\ ~retry_if_server_error(retry_if_server_error_init(kw.server_error_codes),
                                 retry_state)
       /\ ~retry_if_network_error(retry_if_network_error_init(kw.network_errors),
                                  retry_state)
       /\ ~retry_if_network_timeout(retry_if_network_timeout_init(kw.network_timeouts),
                                    retry_state)
       /\ \A rnd \in 0..MaxJitter :
            LET w == wait_context_aware(policy.wait, retry_state, rnd)
            IN  ~w.raised /\ w.v = 0
       /\ pc' = "done"
       /\ result' = [kind |-> "return", exc_type |-> "", origin |-> "attempt",
                     last |-> outcome]
       /\ result'.last.value = outcome.value
       /\ calls' = calls
       /\ sleeps' = sleeps

C4_SuccessNeverRetried == [][C4_Step]_vars

C4_Witness ==
    /\ pc = "done"
    /\ result.kind = "return"
    /\ calls = 2
    /\ outcome.kind = "result"

(***************************************************************************)
(* Header texts and the number of seconds each one denotes.                *)
(***************************************************************************)
NonNegativeTexts == {<<"5">>, <<"0">>, <<"1", "2">>}
Seconds(text) ==
    CASE text = <<"5">> -> 5
      [] text = <<"0">> -> 0
      [] text = <<"1", "2">> -> 12
UnparsableTexts == {NotANumber, HttpDate}

\* The header-driven strategies examined: the policy's rate-limit strategy
\* (Retry-After, jittered fallback) and one with another header and fallback.
HeaderStrategies ==
    {policy.wait.wait_rate_limited,
     wait_from_header_init("X-Retry-In", wait_exponential_init(1, 15))}

(***************************************************************************)
(* C5: wait_from_header never raises: for a status-carrying failure whose  *)
(* header value does not parse as a number it returns the fallback's value *)
(* for that attempt, so no approved retry is aborted by the wait.          *)
(***************************************************************************)
C5_NeverRaises ==
    /\ (pc = "iter" /\ IsStatusFailure(outcome))
       => \A self \in HeaderStrategies : \A rnd \in 0..MaxJitter :
            LET w == wait_from_header(self, retry_state, rnd)
            IN  /\ ~w.raised
                /\ (HasHeader(outcome.headers, self.header)
                    /\ GetHeader(outcome.headers, self.header) \in UnparsableTexts)
                   => w.v = call_wait(self.fallback, retry_state, rnd).v
    /\ pc = "done" => result.origin # "wait"

(***************************************************************************)
(* C6: wait_from_header returns exactly the header's number when a         *)
(* status-carrying failure carries the header with a non-negative number,  *)
(* and the fallback's value for the attempt when the header is absent or   *)
(* the failure is not status-carrying; in the default policy the pause     *)
(* after a 429 failure with Retry-After: n is n seconds.                   *)
(***************************************************************************)
C6_HeaderTakesPrecedence ==
    /\ (pc = "iter" /\ IsFailure(outcome))
       => \A self \in HeaderStrategies : \A rnd \in 0..MaxJitter :
            LET w == wait_from_header(self, retry_state, rnd)
                fallback == call_wait(self.fallback, retry_state, rnd)
                present == IsStatusFailure(outcome)
                           /\ HasHeader(outcome.headers, self.header)
            IN  /\ (present /\ GetHeader(outcome.headers, self.header) \in NonNegativeTexts)
                   => (~w.raised
                       /\ w.v = Seconds(GetHeader(outcome.headers, self.header)))
                /\ ~present => (~w.raised /\ w.v = fallback.v)
    /\ (pc = "sleep" /\ DefaultSets /\ InRateLimited(outcome)
          /\ HasHeader(outcome.headers, "Retry-After")
          /\ GetHeader(outcome.headers, "Retry-After") \in NonNegativeTexts)
       => upcoming_sleep = Seconds(GetHeader(outcome.headers, "Retry-After"))

C6_Witness ==
    /\ pc = "sleep"
    /\ DefaultSets
    /\ attempt_number = 2
    /\ InRateLimited(outcome)
    /\ outcome.headers = {<<"retry-after", <<"5">>>>, <<"x-retry-in", <<"1", "2">>>>}
    /\ upcoming_sleep = 5

(***************************************************************************)
(* C7: every wait decision is a non-negative duration, for every outcome   *)
(* and every header value.                                                 *)
(***************************************************************************)
C7_WaitNonNegative ==
    /\ upcoming_sleep >= 0
    /\ pc = "iter"
       => \A rnd \in 0..MaxJitter :
            /\ \A self \in HeaderStrategies :
                 LET w == wait_from_header(self, retry_state, rnd)
                 IN  ~w.raised => w.v >= 0
            /\ LET w == wait_context_aware(policy.wait, retry_state, rnd)
               IN  ~w.raised => w.v >= 0

(***************************************************************************)
(* C8: the wait dispatcher classifies with the policy's configured sets:   *)
(* the strategy it uses is that of the first category, in priority order,  *)
(* whose membership test under the configured sets is true.                *)
(***************************************************************************)
FirstConfiguredCategory(o) ==
    IF InServerErrors(o) THEN "wait_server_errors"
    ELSE IF InNetworkErrors(o) THEN "wait_network_errors"
    ELSE IF InNetworkTimeouts(o) THEN "wait_network_timeouts"
    ELSE IF InRateLimited(o) THEN "wait_rate_limited"
    ELSE "none"

C8_DispatcherUsesConfiguredSets ==
    (pc = "iter" /\ IsFailure(outcome))
    => \A rnd \in 0..MaxJitter :
         wait_context_aware(policy.wait, retry_state, rnd).source
            = FirstConfiguredCategory(outcome)

(***************************************************************************)
(* C9: no pause duration is taken from a category's wait strategy while    *)
(* that category's retry toggle is False.                                  *)
(***************************************************************************)
C9_DisabledWaitNeverUsed ==
    pc = "sleep"
    => /\ wait_source = "wait_server_errors" => kw.retry_server_errors
       /\ wait_source = "wait_network_errors" => kw.retry_network_errors
       /\ wait_source = "wait_network_timeouts" => kw.retry_network_timeouts
       /\ wait_source = "wait_rate_limited" => kw.retry_rate_limited

(***************************************************************************)
(* C10 as stated: with a category's toggle False, every failure in that    *)
(* category's configured set is not retried and is propagated, whatever    *)
(* the other toggles and sets are, overlapping sets included.              *)
(***************************************************************************)
C10_DisabledNeverRetried ==
    \A cat \in Categories :
        (pc \in {"sleep", "done"} /\ ~Enabled(cat) /\ InCategory(cat, outcome))
        => (pc = "done" /\ result = Propagated(outcome))

(***************************************************************************)
(* C10 amended: with a category's toggle False, every failure in that      *)
(* category's configured set that is in no enabled category's configured   *)
(* set is not retried: the run ends at that attempt and the failure is     *)
(* propagated.                                                             *)
(***************************************************************************)
C10_DisabledNotRetriedUnlessOtherEnabled ==
    \A cat \in Categories :
        (pc \in {"sleep", "done"} /\ ~Enabled(cat) /\ InCategory(cat, outcome)
            /\ ~\E other \in Categories : Enabled(other) /\ InCategory(other, outcome))
        => (pc = "done" /\ result = Propagated(outcome))

C10_Witness ==
    /\ pc = "done"
    /\ ~kw.retry_network_errors
    /\ kw.retry_network_timeouts
    /\ kw.network_timeouts = Types({"ConnectError", "ReadTimeout"})
    /\ kw.network_errors = Types({"CloseError"})
    /\ outcome = Raised("CloseError")
    /\ result = Propagated(outcome)
    /\ calls = 1

(***************************************************************************)
(* C11: shouldRetry is the logical OR of exactly the enabled classifier    *)
(* predicates under the configured sets; with all four toggles False it is *)
(* false for every outcome and every run makes exactly one attempt.        *)
(***************************************************************************)
AllDisabled == \A cat \in Categories : ~Enabled(cat)

C11_ShouldRetryIsOrOfEnabled ==
    /\ retry_any(policy.retry, retry_state) = ShouldRetryAccepts(outcome)
    /\ Len(policy.retry) = Cardinality({cat \in Categories : Enabled(cat)})
    /\ AllDisabled => (/\ ~retry_any(policy.retry, retry_state)
                       /\ calls <= 1
                       /\ pc \in {"attempt", "iter", "done"}
                       /\ pc = "done" => calls = 1)

C11_Witness ==
    /\ pc = "done"
    /\ AllDisabled
    /\ calls = 1
    /\ IsStatusFailure(outcome) /\ outcome.status_code = 500
    /\ result = Propagated(outcome)

(***************************************************************************)
(* Direct use of the strategy objects: the four classifier predicates and  *)
(* a wait_context_aware dispatcher are constructed with the configured     *)
(* sets and called on a retry state.  Here result holds the values the     *)
(* calls returned, in call order, and calls counts the calls made.         *)
(***************************************************************************)
MaxCalls == 2              \* calls of the predicates, and of the dispatcher

CallOutcomes ==
    Outcomes
    \cup {OutcomeNone, StatusError(503, NoHeaders), StatusError(502, NoHeaders),
          Raised("ReadError"), Raised("ConnectTimeout")}

CallKwChoices ==
    {[DefaultKw EXCEPT !.server_error_codes = c,
                       !.network_errors = e,
                       !.network_timeouts = o] :
        c \in CodeChoices, e \in NetworkErrorChoices, o \in NetworkTimeoutChoices}

NoReturns == [classified |-> <<>>, waited |-> <<>>]

\* The objects under call: the four predicates and the dispatcher.
StrategyObjects(k) ==
    [retry |-> <<retry_if_server_error_init(k.server_error_codes),
                 retry_if_network_error_init(k.network_errors),
                 retry_if_network_timeout_init(k.network_timeouts),
                 retry_if_rate_limited_init>>,
     wait |-> wait_context_aware_init(k.wait_server_errors, k.wait_network_errors,
                                      k.wait_network_timeouts, k.wait_rate_limited,
                                      k.server_error_codes, k.network_errors,
                                      k.network_timeouts),
     stop |-> k.max_attempt_number]

InitCalls ==
    /\ kw \in CallKwChoices
    /\ policy = StrategyObjects(kw)
    /\ wait_first = FALSE
    /\ pc = "call"
    /\ attempt_number \in 1..MaxAttemptNumber
    /\ outcome \in CallOutcomes
    /\ upcoming_sleep = 0
    /\ wait_source = ""
    /\ calls = 0
    /\ sleeps = 0
    /\ result = NoReturns

\* Each of the four predicates is called on the retry state.
Classify ==
    /\ pc = "call"
    /\ Len(result.classified) < MaxCalls
    /\ result' = [result EXCEPT !.classified = Append(@,
                    [server_error |-> call_retry(policy.retry[1], retry_state),
                     network_error |-> call_retry(policy.retry[2], retry_state),
                     network_timeout |-> call_retry(policy.retry[3], retry_state),
                     rate_limited |-> call_retry(policy.retry[4], retry_state)])]
    /\ calls' = calls + 1
    /\ UNCHANGED <<kw, policy, wait_first, pc, attempt_number, outcome,
                   upcoming_sleep, wait_source, sleeps>>

\* The dispatcher is called on the retry state.
Dispatch ==
    /\ pc = "call"
    /\ Len(result.waited) < MaxCalls
    /\ \E rnd \in 0..MaxJitter :
         result' = [result EXCEPT !.waited =
                        Append(@, wait_context_aware(policy.wait, retry_state, rnd))]
    /\ calls' = calls + 1
    /\ UNCHANGED <<kw, policy, wait_first, pc, attempt_number, outcome,
                   upcoming_sleep, wait_source, sleeps>>

NextCalls == Classify \/ Dispatch

SpecCalls == InitCalls /\ [][NextCalls]_vars

(***************************************************************************)
(* C12: wait_context_aware tests the categories in the order server error, *)
(* network error, network timeout, rate-limited and returns the value of   *)
(* the first matching category's strategy, or 0 when none matches.         *)
(***************************************************************************)
StrategyOf(source) ==
    CASE source = "wait_server_errors" -> policy.wait.wait_server_errors
      [] source = "wait_network_errors" -> policy.wait.wait_network_errors
      [] source = "wait_network_timeouts" -> policy.wait.wait_network_timeouts
      [] source = "wait_rate_limited" -> policy.wait.wait_rate_limited

C12_FixedPriorityOrder ==
    \A i \in DOMAIN result.waited :
        LET w == result.waited[i]
            first == FirstConfiguredCategory(outcome)
        IN  /\ w.source = first
            /\ IF first = "none" THEN w = From(Delay(0), "none")
               ELSE \E rnd \in 0..MaxJitter :
                      w = From(call_wait(StrategyOf(first), retry_state, rnd), first)

C12_Witness ==
    /\ Len(result.waited) >= 1
    /\ InServerErrors(outcome) /\ InRateLimited(outcome)
    /\ HasHeader(outcome.headers, "Retry-After")
    /\ GetHeader(outcome.headers, "Retry-After") = <<"5">>
    /\ result.waited[1].source = "wait_server_errors"
    /\ result.waited[1].v < 5

(***************************************************************************)
(* C13: retry_if_rate_limited is true iff the failure is a status-carrying *)
(* error with code 429; with the default sets at most one of the four      *)
(* predicates is true, and for a 429 only the rate-limited one.            *)
(***************************************************************************)
TrueCount(c) ==
    (IF c.server_error THEN 1 ELSE 0) + (IF c.network_error THEN 1 ELSE 0)
    + (IF c.network_timeout THEN 1 ELSE 0) + (IF c.rate_limited THEN 1 ELSE 0)

C13_RateLimitedExclusive ==
    \A i \in DOMAIN result.classified :
        LET c == result.classified[i]
        IN  /\ c.rate_limited = (IsStatusFailure(outcome) /\ outcome.status_code = 429)
            /\ DefaultSets => TrueCount(c) <= 1
            /\ (DefaultSets /\ IsStatusFailure(outcome) /\ outcome.status_code = 429)
               => (c.rate_limited /\ TrueCount(c) = 1)

C13_Witness ==
    /\ Len(result.classified) >= 1
    /\ DefaultSets
    /\ IsStatusFailure(outcome) /\ outcome.status_code = 429
    /\ result.classified[1].rate_limited
    /\ ~result.classified[1].server_error

(***************************************************************************)
(* C14: retry_if_server_error(codes) is true iff the failure is a          *)
(* status-carrying error whose code is in the configured codes: the        *)
(* default set is {500, 502, 503, 504} (501 is outside), one integer       *)
(* behaves as the one-element set, a failure without status gives false.   *)
(***************************************************************************)
C14_ServerErrorMembership ==
    \A i \in DOMAIN result.classified :
        LET c == result.classified[i]
        IN  /\ c.server_error = InServerErrors(outcome)
            /\ kw.server_error_codes = NoneCodes
               => c.server_error = (IsStatusFailure(outcome)
                                    /\ outcome.status_code \in {500, 502, 503, 504})
            /\ kw.server_error_codes.tag = "int"
               => c.server_error = (IsStatusFailure(outcome)
                                    /\ outcome.status_code = kw.server_error_codes.one)
            /\ ~IsStatusFailure(outcome) => ~c.server_error

C14_Witness ==
    /\ Len(result.classified) >= 1
    /\ kw.server_error_codes = IntCode(503)
    /\ outcome = StatusError(503, NoHeaders)
    /\ result.classified[1].server_error

(***************************************************************************)
(* C15: retry_if_network_error(errors) is true iff the failure's type      *)
(* belongs to the configured error types (default connect, read and write  *)
(* failure, not transport close), retry_if_network_timeout(timeouts) iff   *)
(* it belongs to the configured timeout types (default the general timeout *)
(* type, covering every specific timeout); one type behaves as a set of    *)
(* one.                                                                    *)
(***************************************************************************)
C15_NetworkTypeMembership ==
    \A i \in DOMAIN result.classified :
        LET c == result.classified[i]
        IN  /\ c.network_error = InNetworkErrors(outcome)
            /\ c.network_timeout = InNetworkTimeouts(outcome)
            /\ kw.network_errors = None
               => c.network_error = (IsFailure(outcome)
                      /\ outcome.type \in {"ConnectError", "ReadError", "WriteError"})
            /\ kw.network_timeouts = None
               => c.network_timeout = (IsFailure(outcome)
                      /\ outcome.type \in {"ReadTimeout", "ConnectTimeout"})
            /\ kw.network_timeouts.tag = "type"
               => c.network_timeout = (IsFailure(outcome)
                      /\ outcome.type = kw.network_timeouts.one)

C15_Witness ==
    /\ Len(result.classified) >= 1
    /\ kw.network_errors = OneType("NetworkError")
    /\ kw.network_timeouts = None
    /\ outcome = Raised("CloseError")
    /\ result.classified[1].network_error
    /\ ~result.classified[1].network_timeout

(***************************************************************************)
(* Concurrent use of one policy: several call sequences of the decorated   *)
(* function run interleaved.  kw, policy and wait_first are shared; every  *)
(* other variable holds one value per sequence (tenacity gives each call   *)
(* its own retry state).                                                   *)
(***************************************************************************)
NumRuns == 2               \* concurrent call sequences

Runs == 1..NumRuns

ConcurrentOutcomes ==
    {Returned(1), Raised("ConnectError"), StatusError(404, NoHeaders),
     StatusError(429, {<<"retry-after", <<"5">>>>}),
     StatusError(429, {<<"retry-after", NotANumber>>})}

ConcurrentKwChoices ==
    {[DefaultKw EXCEPT !.max_attempt_number = n] : n \in 1..MaxAttemptNumber}

retry_state_of(r) == [attempt_number |-> attempt_number[r], outcome |-> outcome[r]]

\* Variant: the dispatcher adds each status code it is shown to its
\* server_error_codes attribute.
self_after_call_remembering(self, rs) ==
    IF self.cls = "wait_context_aware" /\ rs.outcome.type = "HTTPStatusError"
    THEN [self EXCEPT !.server_error_codes =
                Codes(@.many \cup {rs.outcome.status_code})]
    ELSE self

\* The attributes of a strategy object after its __call__: no __call__ of a
\* predicate or wait strategy assigns to self.
self_after_call(self, rs) == self

InitConcurrent ==
    /\ kw \in ConcurrentKwChoices
    /\ policy = retry_http_errors(kw)
    /\ wait_first \in BOOLEAN
    /\ pc = [r \in Runs |-> "attempt"]
    /\ attempt_number = [r \in Runs |-> 1]
    /\ outcome = [r \in Runs |-> OutcomeNone]
    /\ upcoming_sleep = [r \in Runs |-> 0]
    /\ wait_source = [r \in Runs |-> ""]
    /\ calls = [r \in Runs |-> 0]
    /\ sleeps = [r \in Runs |-> 0]
    /\ result = [r \in Runs |-> NoResult]

RunAttempt(r) ==
    /\ pc[r] = "attempt"
    /\ \E o \in ConcurrentOutcomes : outcome' = [outcome EXCEPT ![r] = o]
    /\ calls' = [calls EXCEPT ![r] = @ + 1]
    /\ pc' = [pc EXCEPT ![r] = "iter"]
    /\ UNCHANGED <<kw, policy, wait_first, attempt_number, upcoming_sleep,
                   wait_source, sleeps, result>>

RunFinish(r, res) ==
    /\ pc' = [pc EXCEPT ![r] = "done"]
    /\ result' = [result EXCEPT ![r] = res]

RunIter(r) ==
    /\ pc[r] = "iter"
    /\ \E rnd \in 0..MaxJitter :
        LET rs == retry_state_of(r)
            retry == retry_any(policy.retry, rs)
            w == wait_context_aware(policy.wait, rs, rnd)
            stop == stop_after_attempt(policy.stop, rs)
            waited == retry /\ (wait_first \/ ~stop)
            slept == [upcoming_sleep EXCEPT ![r] = w.v]
            source == [wait_source EXCEPT ![r] = w.source]
        IN  /\ policy' = [retry |-> [i \in DOMAIN policy.retry |->
                                        self_after_call(policy.retry[i], rs)],
                          wait |-> IF waited THEN self_after_call(policy.wait, rs)
                                   ELSE policy.wait,
                          stop |-> policy.stop]
            /\ IF ~retry
               THEN /\ RunFinish(r, FutureResult(outcome[r]))
                    /\ UNCHANGED <<upcoming_sleep, wait_source>>
               ELSE IF wait_first
               THEN IF w.raised
                    THEN /\ RunFinish(r, WaitRaised(outcome[r]))
                         /\ UNCHANGED <<upcoming_sleep, wait_source>>
                    ELSE /\ upcoming_sleep' = slept
                         /\ wait_source' = source
                         /\ IF stop THEN RunFinish(r, RetryError(outcome[r]))
                            ELSE pc' = [pc EXCEPT ![r] = "sleep"] /\ UNCHANGED result
               ELSE IF stop
                    THEN /\ RunFinish(r, RetryError(outcome[r]))
                         /\ UNCHANGED <<upcoming_sleep, wait_source>>
                    ELSE IF w.raised
                         THEN /\ RunFinish(r, WaitRaised(outcome[r]))
                              /\ UNCHANGED <<upcoming_sleep, wait_source>>
                         ELSE /\ upcoming_sleep' = slept
                              /\ wait_source' = source
                              /\ pc' = [pc EXCEPT ![r] = "sleep"]
                              /\ UNCHANGED result
    /\ UNCHANGED <<kw, wait_first, attempt_number, outcome, calls, sleeps>>

RunSleep(r) ==
    /\ pc[r] = "sleep"
    /\ IF upcoming_sleep[r] < 0
       THEN /\ RunFinish(r, SleepRaised(outcome[r]))
            /\ UNCHANGED <<attempt_number, outcome, sleeps>>
       ELSE /\ attempt_number' = [attempt_number EXCEPT ![r] = @ + 1]
            /\ outcome' = [outcome EXCEPT ![r] = OutcomeNone]
            /\ sleeps' = [sleeps EXCEPT ![r] = @ + 1]
            /\ pc' = [pc EXCEPT ![r] = "attempt"]
            /\ UNCHANGED result
    /\ UNCHANGED <<kw, policy, wait_first, upcoming_sleep, wait_source, calls>>

NextConcurrent == \E r \in Runs : RunAttempt(r) \/ RunIter(r) \/ RunSleep(r)

SpecConcurrent == InitConcurrent /\ [][NextConcurrent]_vars

(***************************************************************************)
(* C16: one policy serves any number of concurrent call sequences without  *)
(* interference: no call changes a field of the policy's objects, a step   *)
(* of one sequence leaves every other sequence's state alone, and each     *)
(* sequence's attempt count, retry decisions and wait values follow from   *)
(* its own outcomes, each bounded by max_attempt_number on its own.        *)
(***************************************************************************)
RunState(r) ==
    <<pc[r], attempt_number[r], outcome[r], upcoming_sleep[r], wait_source[r],
      calls[r], sleeps[r], result[r]>>

C16_OwnOutcomesDecide(r) ==
    LET rs == retry_state_of(r)
        built == retry_http_errors(kw)
    IN  /\ calls[r] <= kw.max_attempt_number
        /\ calls[r] = IF pc[r] = "attempt" THEN attempt_number[r] - 1
                      ELSE attempt_number[r]
        /\ sleeps[r] = attempt_number[r] - 1
        /\ pc[r] = "sleep"
           => /\ ShouldRetryAccepts(outcome[r])
              /\ attempt_number[r] < kw.max_attempt_number
              /\ \E rnd \in 0..MaxJitter :
                   LET w == wait_context_aware(built.wait, rs, rnd)
                   IN  upcoming_sleep[r] = w.v /\ wait_source[r] = w.source
        /\ pc[r] = "done"
           => IF ShouldRetryAccepts(outcome[r])
              THEN \/ /\ result[r] = RetryError(outcome[r])
                      /\ calls[r] = kw.max_attempt_number
                   \/ /\ result[r] = WaitRaised(outcome[r])
                      /\ \A rnd \in 0..MaxJitter :
                            wait_context_aware(built.wait, rs, rnd).raised
              ELSE result[r] = FutureResult(outcome[r])

C16_StepIsLocal ==
    /\ policy' = policy
    /\ kw' = kw
    /\ \E r \in Runs : \A other \in Runs \ {r} : RunState(other)' = RunState(other)

C16_NoInterference ==
    /\ [](\A r \in Runs : C16_OwnOutcomesDecide(r))
    /\ [][C16_StepIsLocal]_vars

C16_Witness ==
    /\ pc[1] = "sleep" /\ attempt_number[1] = 2
    /\ outcome[1] = StatusError(429, {<<"retry-after", <<"5">>>>})
    /\ upcoming_sleep[1] = 5
    /\ pc[2] = "done" /\ calls[2] = 1
    /\ result[2] = FutureResult(StatusError(404, NoHeaders))

(***************************************************************************)
(* C17 as stated: calling a classifier predicate, or the dispatcher with   *)
(* the default strategies of retry_http_errors, twice with the same        *)
(* outcome, attempt number and configuration yields identical results and  *)
(* leaves the configuration unchanged.                                     *)
(***************************************************************************)
C17_Idempotent ==
    DefaultSets
    => /\ \A i, j \in DOMAIN result.classified :
            result.classified[i] = result.classified[j]
       /\ \A i, j \in DOMAIN result.waited : result.waited[i] = result.waited[j]
       /\ policy = StrategyObjects(kw)

(***************************************************************************)
(* C17 amended: the classifier predicates are idempotent, the dispatcher   *)
(* selects the same category on every call and no call changes the         *)
(* configuration; the dispatcher's value is identical across calls when    *)
(* the selected strategy draws no jitter (no match, the network-error      *)
(* backoff, the rate-limit strategy with its header present) and otherwise *)
(* differs by no more than the jitter drawn.                               *)
(***************************************************************************)
DrawsNoJitter(o) ==
    LET first == FirstConfiguredCategory(o)
    IN  \/ first \in {"none", "wait_network_errors"}
        \/ first = "wait_rate_limited" /\ HasHeader(o.headers, "Retry-After")

C17_IdempotentUpToJitter ==
    /\ \A i, j \in DOMAIN result.classified :
         result.classified[i] = result.classified[j]
    /\ \A i, j \in DOMAIN result.waited :
         LET a == result.waited[i]
             b == result.waited[j]
         IN  /\ a.source = b.source
             /\ a.raised = b.raised
             /\ a.v - b.v <= MaxJitter
             /\ DrawsNoJitter(outcome) => a = b
    /\ policy = StrategyObjects(kw)

C17_Witness ==
    /\ Len(result.classified) = 2
    /\ Len(result.waited) = 2
    /\ DefaultSets
    /\ outcome = Raised("ConnectError")
    /\ attempt_number = 2
    /\ result.waited[1] = From(Delay(2), "wait_network_errors")
    /\ result.waited[2] = result.waited[1]

(***************************************************************************)
(* C18: whenever the executor pauses before a retry, the pause duration    *)
(* comes from a matching category's wait strategy; the dispatcher's        *)
(* no-match zero is never the source of a pause, whatever the toggles and  *)
(* the configured sets are.                                                *)
(***************************************************************************)
C18_PauseFromMatchingCategory ==
    pc = "sleep"
    => /\ wait_source \in {"wait_server_errors", "wait_network_errors",
                           "wait_network_timeouts", "wait_rate_limited"}
       /\ wait_source # "none"

(***************************************************************************)
(* C19: attempts and pauses alternate: each attempt after the first is     *)
(* preceded by exactly one pause, whose duration is the dispatcher's value *)
(* for the earlier attempt's failure and which happens only after          *)
(* shouldRetry was true for that failure and the stop condition false; no  *)
(* pause follows the final attempt, so k attempts contain k - 1 pauses.    *)
(***************************************************************************)
C19_Step ==
    /\ calls' # calls
       => (calls' = calls + 1 /\ sleeps = calls /\ sleeps' = sleeps)
    /\ sleeps' # sleeps
       => /\ sleeps' = sleeps + 1
          /\ calls' = calls
          /\ calls = sleeps + 1
          /\ IsFailure(outcome)
          /\ ShouldRetryAccepts(outcome)
          /\ ~(attempt_number >= kw.max_attempt_number)
          /\ \E rnd \in 0..MaxJitter :
               LET w == wait_context_aware(policy.wait, retry_state, rnd)
               IN  ~w.raised /\ w.v = upcoming_sleep
          /\ pc' = "attempt"
    /\ pc' = "done" => (calls' = sleeps' + 1 /\ calls' = calls /\ sleeps' = sleeps)

C19_AttemptsAndPausesAlternate == [][C19_Step]_vars

C19_Witness ==
    /\ pc = "done"
    /\ calls = 3
    /\ sleeps = 2
    /\ result.kind = "return"

(***************************************************************************)
(* Extra keyword arguments (dkw) of retry_http_errors and the              *)
(* application of the decorator it returns.  kw.dkw holds the names of the *)
(* extra keywords passed; Override(name) is the value passed under it.     *)
(***************************************************************************)
StrategyKeywords == {"retry", "wait", "stop"}
DkwNames == StrategyKeywords \cup {"reraise"}

Override(name) ==
    CASE name = "retry" -> <<[cls |-> "retry_if_rate_limited"]>>
      [] name = "wait" -> wait_exponential_init(2, 10)
      [] name = "stop" -> 5

\* Lines 258-269: dkw.get(name) or the composed default.
compose(k) ==
    LET composed == retry_http_errors(k)
    IN  [retry |-> IF "retry" \in k.dkw THEN Override("retry") ELSE composed.retry,
         wait |-> IF "wait" \in k.dkw THEN Override("wait") ELSE composed.wait,
         stop |-> IF "stop" \in k.dkw THEN Override("stop") ELSE composed.stop]

Decorated == [kind |-> "return", exc_type |-> "", origin |-> "decorator",
              last |-> OutcomeNone]
TypeError == [kind |-> "raise", exc_type |-> "TypeError", origin |-> "decorator",
              last |-> OutcomeNone]

\* decorator(func): tenacity.retry(retry=retry, wait=wait, stop=stop, dkw...);
\* a keyword given both explicitly and through **dkw is a TypeError.
decorator(k) ==
    IF k.dkw \cap StrategyKeywords # {} THEN TypeError ELSE Decorated

OverrideKwChoices ==
    {[DefaultKw EXCEPT !.max_attempt_number = n,
                       !.retry_server_errors = t[1],
                       !.retry_network_errors = t[2],
                       !.retry_network_timeouts = t[3],
                       !.retry_rate_limited = t[4]] @@ [dkw |-> d] :
        n \in 1..MaxAttemptNumber,
        t \in BOOLEAN \X BOOLEAN \X BOOLEAN \X BOOLEAN,
        d \in SUBSET DkwNames}

InitOverride ==
    /\ kw \in OverrideKwChoices
    /\ policy = compose(kw)
    /\ wait_first = FALSE
    /\ pc = "decorate"
    /\ attempt_number = 1
    /\ outcome = OutcomeNone
    /\ upcoming_sleep = 0
    /\ wait_source = ""
    /\ calls = 0
    /\ sleeps = 0
    /\ result = NoResult

\* The decorator returned by retry_http_errors is applied to a function.
Decorate ==
    /\ pc = "decorate"
    /\ result' = decorator(kw)
    /\ pc' = "decorated"
    /\ UNCHANGED <<kw, policy, wait_first, attempt_number, outcome,
                   upcoming_sleep, wait_source, calls, sleeps>>

NextOverride == Decorate

SpecOverride == InitOverride /\ [][NextOverride]_vars

(***************************************************************************)
(* C20: a caller who passes a retry, wait or stop keyword override gets a  *)
(* working policy: the supplied strategy replaces the composed default,    *)
(* the other two keep their defaults, and applying the returned decorator  *)
(* to a function succeeds.                                                 *)
(***************************************************************************)
C20_OverrideWorks ==
    (pc = "decorated" /\ kw.dkw \cap StrategyKeywords # {})
    => /\ result = Decorated
       /\ policy.retry = IF "retry" \in kw.dkw THEN Override("retry")
                         ELSE retry_http_errors(kw).retry
       /\ policy.wait = IF "wait" \in kw.dkw THEN Override("wait")
                        ELSE retry_http_errors(kw).wait
       /\ policy.stop = IF "stop" \in kw.dkw THEN Override("stop")
                        ELSE kw.max_attempt_number

====
